---- MODULE Spec2Model ----
(***************************************************************************)
(* Model of the personal-tldr content pipeline:                            *)
(*   Stage 1  jobs/filter.py         change detection over current.json    *)
(*   Stage 2  jobs/fetch_content.py  concurrent retrieval                  *)
(*   Stage 3  jobs/curate.py         classification                        *)
(* Strings that the code compares (published_at) are sequences of digits   *)
(* compared the way Python compares str values.  A file is a record        *)
(* [exists, data]; the dated artifacts are the ones of a single day.       *)
(***************************************************************************)
EXTENDS Integers, Sequences, FiniteSets, TLC

VARIABLES
    is_github,          \* filter.is_github_actions_env(), fixed per deployment
    current_json,       \* the known-state log: data/current.json or the gist document
    content_request,    \* data/content_request_<today>.json
    latest_retrieval,   \* filter.main: what load_latest_updates returned in the last run
    new_entries,        \* filter.main: new entries emitted by the last run
    load_status,        \* last run: "skipped" | "ok" | "failed"  (load_current_entries)
    save_status,        \* last run: "skipped" | "ok" | "failed"  (save_current_entries)
    runs,               \* number of Stage 1 runs so far
    fetch_pc,           \* fetch_content.main: "idle" | "gathering" | "done"
    content_requests,   \* fetch_content.main: the list read at line 90
    tasks,              \* one result slot per request, filled as its coroutine ends
    faults,             \* per request, what its connector did
    raw_results,        \* data/raw_results_<today>.json
    success_count,      \* fetch_content.main, line 101
    failure_count,      \* fetch_content.main, line 102
    lost,               \* (channel, published_at) pairs requested whose retrieval failed
    processed_results,  \* data/processed_results_<today>.json
    curated_results,    \* data/curated_results_<today>.json
    service,            \* what the judgment-service call did in the run of curate.main
    curate_outcome,     \* curate.main: "idle" | "no_input" | "raised" | "failed" | "saved"
    dd_pc,              \* pure-function harness: "in" | "out"
    dd_in,              \* input list of deduplicate_current_entries
    dd_out,             \* its result
    pd_pc,              \* pure-function harness: "in" | "out"
    pd_in,              \* argument of curate.parse_duration_to_seconds
    pd_out,             \* its result
    fn_pc,              \* pure-function harness: "in" | "out"
    fn_latest,          \* filter_new_entries: latest_retrieval
    fn_known,           \* filter_new_entries: current_entries on entry
    fn_out              \* its result (new_entries, current_entries)

vars == <<is_github, current_json, content_request, latest_retrieval, new_entries,
          load_status, save_status, runs,
          fetch_pc, content_requests, tasks, faults, raw_results, success_count,
          failure_count, lost,
          processed_results, curated_results, service, curate_outcome,
          dd_pc, dd_in, dd_out, pd_pc, pd_in, pd_out,
          fn_pc, fn_latest, fn_known, fn_out>>

curateVars == <<processed_results, curated_results, service, curate_outcome>>

fetchVars == <<fetch_pc, content_requests, tasks, faults, raw_results, success_count,
               failure_count, lost>>

filterVars == <<is_github, current_json, content_request, latest_retrieval, new_entries,
                load_status, save_status, runs>>

ddVars == <<dd_pc, dd_in, dd_out>>
pdVars == <<pd_pc, pd_in, pd_out>>
fnVars == <<fn_pc, fn_latest, fn_known, fn_out>>

pureVars == <<ddVars, pdVars, fnVars>>

-----------------------------------------------------------------------------
(* Bounds *)

MaxRuns == 2        \* Stage 1 runs in one behaviour
MaxCache == 2       \* items in the day's metadata cache, over all cache files
MaxFiles == 2       \* cache files of the day
MaxLog == 2         \* entries of the initial known-state log
MaxLen == 3         \* length of the lists handed to the pure functions
MaxRequests == 3    \* content requests in a batch handed to Stage 2 alone
MaxBatch == 2       \* records in the batch handed to Stage 3
MaxVerdicts == 2    \* verdicts in a judgment response, over the three buckets
MaxDur == 3         \* characters of the free-form duration strings
MaxInFlight == 2    \* content requests in a batch when progress is checked

-----------------------------------------------------------------------------
(* Values *)

Channels == {"A", "B"}

\* published_at strings as digit sequences: "10", "9" (Stage 1) and "90" besides
Timestamps == {<<1, 0>>, <<9>>}
AllTimestamps == Timestamps \cup {<<9, 0>>}

KnownEntries == [channel : Channels, published_at : Timestamps]
AllKnownEntries == [channel : Channels, published_at : AllTimestamps]

\* metadata records the connectors cached (first phase)
CacheItems ==
    { [type |-> "youtube", channel |-> "A", published_at |-> <<9>>,    source_url |-> ""],
      [type |-> "youtube", channel |-> "A", published_at |-> <<1, 0>>, source_url |-> ""],
      [type |-> "website", channel |-> "B", published_at |-> <<9>>,    source_url |-> "https://b"] }

RECURSIVE SeqsUpTo(_, _)
SeqsUpTo(S, n) ==
    IF n = 0 THEN {<<>>}
    ELSE LET shorter == SeqsUpTo(S, n - 1)
         IN  shorter \cup {Append(s, x) : s \in {t \in shorter : Len(t) = n - 1}, x \in S}

Absent == [exists |-> FALSE, data |-> <<>>]
File(d) == [exists |-> TRUE, data |-> d]

-----------------------------------------------------------------------------
(* Python str comparison: a > b *)

RECURSIVE StrGreater(_, _)
StrGreater(a, b) ==
    IF a = <<>> THEN FALSE
    ELSE IF b = <<>> THEN TRUE
    ELSE IF Head(a) # Head(b) THEN Head(a) > Head(b)
    ELSE StrGreater(Tail(a), Tail(b))

Pair(e) == <<e.channel, e.published_at>>

-----------------------------------------------------------------------------
(* filter.deduplicate_current_entries *)

\* position of channel's key in the insertion-ordered dict, 0 if absent
KeyPos(latest_entries, channel) ==
    IF \E i \in 1..Len(latest_entries) : latest_entries[i].channel = channel
    THEN CHOOSE i \in 1..Len(latest_entries) : latest_entries[i].channel = channel
    ELSE 0

\* variant: keeps the smallest published_at
DedupStepKeepsOldest(latest_entries, entry) ==
    LET p == KeyPos(latest_entries, entry.channel)
    IN  IF p = 0 THEN Append(latest_entries, entry)
        ELSE IF StrGreater(latest_entries[p].published_at, entry.published_at)
             THEN [latest_entries EXCEPT ![p] = entry]
             ELSE latest_entries

\* one iteration of the loop, lines 37-42
DedupStep(latest_entries, entry) ==
    LET p == KeyPos(latest_entries, entry.channel)
    IN  IF p = 0 THEN Append(latest_entries, entry)
        ELSE IF StrGreater(entry.published_at, latest_entries[p].published_at)
             THEN [latest_entries EXCEPT ![p] = entry]
             ELSE latest_entries

RECURSIVE DedupFrom(_, _, _)
DedupFrom(current_entries, i, latest_entries) ==
    IF i > Len(current_entries) THEN latest_entries
    ELSE DedupFrom(current_entries, i + 1, DedupStep(latest_entries, current_entries[i]))

deduplicate_current_entries(current_entries) == DedupFrom(current_entries, 1, <<>>)

-----------------------------------------------------------------------------
(* filter.filter_new_entries *)

\* variant: an item is new when its channel is not in the log
FilterNewEntriesByChannel(latest, current_entries) ==
    LET current_set == {current_entries[i].channel : i \in 1..Len(current_entries)}
        IsNew(item) == item.channel \notin current_set
        new == SelectSeq(latest, IsNew)
        appended == [i \in 1..Len(new) |->
                        [channel |-> new[i].channel, published_at |-> new[i].published_at]]
    IN  [new_entries |-> new, current_entries |-> current_entries \o appended]

filter_new_entries(latest, current_entries) ==
    LET current_set == {Pair(current_entries[i]) : i \in 1..Len(current_entries)}
        IsNew(item) == Pair(item) \notin current_set
        new == SelectSeq(latest, IsNew)
        appended == [i \in 1..Len(new) |->
                        [channel |-> new[i].channel, published_at |-> new[i].published_at]]
    IN  [new_entries |-> new, current_entries |-> current_entries \o appended]

-----------------------------------------------------------------------------
(* filter.load_latest_updates *)

\* a cache document: a single mapping, a list of mappings, or an unreadable file
CacheDocs(n) ==
    {[kind |-> "dict", items |-> <<x>>] : x \in IF n >= 1 THEN CacheItems ELSE {}}
      \cup {[kind |-> "list", items |-> s] : s \in SeqsUpTo(CacheItems, n)}
      \cup {[kind |-> "unreadable", items |-> <<>>]}

RECURSIVE Concat(_)
Concat(files) ==
    IF files = <<>> THEN <<>>
    ELSE (IF Head(files).kind = "unreadable" THEN <<>> ELSE Head(files).items)
            \o Concat(Tail(files))

RECURSIVE TotalItems(_)
TotalItems(files) ==
    IF files = <<>> THEN 0 ELSE Len(Head(files).items) + TotalItems(Tail(files))

\* the cache directory as load_latest_updates finds it
CacheDirs ==
    {[exists |-> FALSE, files |-> <<>>]}
      \cup {[exists |-> TRUE, files |-> fs] :
                fs \in {s \in SeqsUpTo(CacheDocs(MaxCache), MaxFiles) : TotalItems(s) <= MaxCache}}

NoneResult == [none |-> TRUE, items |-> <<>>]

load_latest_updates(cache_dir) ==
    IF ~cache_dir.exists THEN NoneResult
    ELSE IF cache_dir.files = <<>> THEN NoneResult
    ELSE [none |-> FALSE, items |-> Concat(cache_dir.files)]

\* what main's call at line 275 can return, over every cache directory
LatestRetrievals == {load_latest_updates(d) : d \in CacheDirs}

-----------------------------------------------------------------------------
(* filter.load_current_entries / save_current_entries / save_content_requests *)

\* environment and I/O outcomes of one run: GIST_ID set or not, whether reading
\* and writing the store raise
RunEnvs(github) ==
    {e \in [gist_id : BOOLEAN, load : {"ok", "error"}, save : {"ok", "error"}] :
        /\ ~github => e.gist_id
        /\ ~e.gist_id => (e.load = "error" /\ e.save = "error")}

OkEnv == [gist_id |-> TRUE, load |-> "ok", save |-> "ok"]

LoadSucceeds(github, env, cur) ==
    IF github THEN env.gist_id /\ env.load = "ok" /\ cur.exists
              ELSE cur.exists /\ env.load = "ok"

load_current_entries(github, env, cur) ==
    IF LoadSucceeds(github, env, cur) THEN cur.data ELSE <<>>

SaveSucceeds(github, env) ==
    IF github THEN env.gist_id /\ env.save = "ok" ELSE env.save = "ok"

save_current_entries(updated_entries, github, env, cur) ==
    IF SaveSucceeds(github, env) THEN File(updated_entries) ELSE cur

save_content_requests(entries) == File(entries)

\* variant: only a missing cache stops the run
NoCachedContentNoneOnly(latest) == latest.none

\* variant: the run never stops early
NoCachedContentNever(latest) == FALSE

\* main, line 276
NoCachedContent(latest) == latest.none \/ Len(latest.items) = 0

-----------------------------------------------------------------------------
(* filter.main *)

FilterMain(latest, env) ==
    /\ runs < MaxRuns
    /\ runs' = runs + 1
    /\ latest_retrieval' = latest
    /\ IF NoCachedContent(latest)
       THEN /\ new_entries' = <<>>
            /\ load_status' = "skipped"
            /\ save_status' = "skipped"
            /\ UNCHANGED <<current_json, content_request>>
       ELSE LET current_entries == load_current_entries(is_github, env, current_json)
                filtered == filter_new_entries(latest.items, current_entries)
                deduplicated_entries ==
                    deduplicate_current_entries(filtered.current_entries)
            IN  /\ new_entries' = filtered.new_entries
                /\ content_request' = save_content_requests(filtered.new_entries)
                /\ current_json' =
                       save_current_entries(deduplicated_entries, is_github, env,
                                            current_json)
                /\ load_status' =
                       IF LoadSucceeds(is_github, env, current_json)
                       THEN "ok" ELSE "failed"
                /\ save_status' =
                       IF SaveSucceeds(is_github, env) THEN "ok" ELSE "failed"
    /\ UNCHANGED is_github

FilterInit ==
    /\ is_github \in BOOLEAN
    /\ current_json \in {Absent} \cup {File(s) : s \in SeqsUpTo(KnownEntries, MaxLog)}
    /\ content_request = Absent
    /\ latest_retrieval = NoneResult
    /\ new_entries = <<>>
    /\ load_status = "skipped"
    /\ save_status = "skipped"
    /\ runs = 0

FilterIdle ==
    /\ is_github = FALSE
    /\ current_json = Absent
    /\ content_request = Absent
    /\ latest_retrieval = NoneResult
    /\ new_entries = <<>>
    /\ load_status = "skipped"
    /\ save_status = "skipped"
    /\ runs = 0

-----------------------------------------------------------------------------
(* fetch_content.fetch_content_by_type *)

\* content requests Stage 2 can be handed: every type of the if/elif chain, a
\* website request without source_url, and a type no branch handles
FetchRequests ==
    { [type |-> "youtube",  channel |-> "A", published_at |-> <<9>>, source_url |-> ""],
      [type |-> "podcast",  channel |-> "A", published_at |-> <<9>>, source_url |-> ""],
      [type |-> "bilibili", channel |-> "B", published_at |-> <<9>>, source_url |-> ""],
      [type |-> "website",  channel |-> "B", published_at |-> <<9>>, source_url |-> "https://b"],
      [type |-> "website",  channel |-> "B", published_at |-> <<9>>, source_url |-> ""],
      [type |-> "rss",      channel |-> "B", published_at |-> <<9>>, source_url |-> ""] }

\* a connector's construction plus get_latest_update_details: a full record,
\* or a fault raised (ValueError from the constructor, any other exception)
ConnectorOutcomes == {"details", "ValueError", "Exception"}

None == [none |-> TRUE, channel |-> "", type |-> "", published_at |-> <<>>]

\* the full record a connector returns for a request
Details(request) ==
    [none |-> FALSE, channel |-> request.channel, type |-> request.type,
     published_at |-> request.published_at]

\* lines 42-75 around one connector call
CallConnector(request, outcome) ==
    IF outcome = "details" THEN Details(request)
    ELSE IF outcome = "ValueError" THEN None
    ELSE None

\* variant: a website request is handed to its connector without the source_url check
FetchContentNoUrlCheck(request, outcome) ==
    IF request.type \in {"youtube", "podcast", "bilibili", "website"}
    THEN CallConnector(request, outcome)
    ELSE None

fetch_content_by_type(request, outcome) ==
    IF request.type = "youtube" THEN CallConnector(request, outcome)
    ELSE IF request.type = "podcast" THEN CallConnector(request, outcome)
    ELSE IF request.type = "bilibili" THEN CallConnector(request, outcome)
    ELSE IF request.type = "website"
         THEN IF request.source_url = "" THEN None
              ELSE CallConnector(request, outcome)
    ELSE None

\* whether the request reaches a connector at all
CallsConnector(request) ==
    \/ request.type \in {"youtube", "podcast", "bilibili"}
    \/ request.type = "website" /\ request.source_url # ""

-----------------------------------------------------------------------------
(* fetch_content.main *)

Pending == [state |-> "pending", result |-> None]
Resolved(r) == [state |-> "done", result |-> r]

\* lines 85-116: read the request file, create one coroutine per request, gather
FetchStart ==
    /\ fetch_pc \in {"idle", "done"}
    /\ IF ~content_request.exists
       THEN /\ fetch_pc' = "done"
            /\ content_requests' = <<>>
            /\ tasks' = <<>>
            /\ faults' = <<>>
            /\ success_count' = 0
            /\ failure_count' = 0
            /\ UNCHANGED raw_results
       ELSE IF content_request.data = <<>>
       THEN /\ fetch_pc' = "done"
            /\ content_requests' = <<>>
            /\ tasks' = <<>>
            /\ faults' = <<>>
            /\ success_count' = 0
            /\ failure_count' = 0
            /\ raw_results' = File(<<>>)
       ELSE /\ fetch_pc' = "gathering"
            /\ content_requests' = content_request.data
            /\ tasks' = [i \in 1..Len(content_request.data) |-> Pending]
            /\ faults' = [i \in 1..Len(content_request.data) |-> "pending"]
            /\ success_count' = 0
            /\ failure_count' = 0
            /\ UNCHANGED raw_results
    /\ UNCHANGED lost

\* the coroutine of request i runs to its end
TaskResolve(i, outcome) ==
    /\ fetch_pc = "gathering"
    /\ i \in 1..Len(tasks)
    /\ tasks[i].state = "pending"
    /\ tasks' = [tasks EXCEPT
                    ![i] = Resolved(fetch_content_by_type(content_requests[i], outcome))]
    /\ faults' = [faults EXCEPT
                    ![i] = IF CallsConnector(content_requests[i]) THEN outcome
                           ELSE "not_called"]
    /\ UNCHANGED <<fetch_pc, content_requests, raw_results, success_count,
                   failure_count, lost>>

\* lines 120-131
RECURSIVE ProcessResults(_, _, _)
ProcessResults(results, i, acc) ==
    IF i > Len(results) THEN acc
    ELSE ProcessResults(results, i + 1,
            IF ~results[i].none
            THEN [raw |-> Append(acc.raw, results[i]),
                  success |-> acc.success + 1,
                  failure |-> acc.failure]
            ELSE [raw |-> acc.raw,
                  success |-> acc.success,
                  failure |-> acc.failure + 1])

\* variant: gather returns as soon as one coroutine has ended
FetchFinishEarly ==
    /\ fetch_pc = "gathering"
    /\ \E i \in 1..Len(tasks) : tasks[i].state = "done"
    /\ LET all_results_details == [i \in 1..Len(tasks) |-> tasks[i].result]
           out == ProcessResults(all_results_details, 1,
                                 [raw |-> <<>>, success |-> 0, failure |-> 0])
           failed == {Pair(content_requests[i]) :
                        i \in {k \in 1..Len(tasks) : tasks[k].result.none}}
           fetched == {Pair(content_requests[i]) :
                        i \in {k \in 1..Len(tasks) : ~tasks[k].result.none}}
       IN  /\ raw_results' = File(out.raw)
           /\ success_count' = out.success
           /\ failure_count' = out.failure
           /\ lost' = (lost \ fetched) \cup failed
    /\ fetch_pc' = "done"
    /\ UNCHANGED <<content_requests, tasks, faults>>

\* lines 116-142: gather returns once every coroutine has ended
FetchFinish ==
    /\ fetch_pc = "gathering"
    /\ \A i \in 1..Len(tasks) : tasks[i].state = "done"
    /\ LET all_results_details == [i \in 1..Len(tasks) |-> tasks[i].result]
           out == ProcessResults(all_results_details, 1,
                                 [raw |-> <<>>, success |-> 0, failure |-> 0])
           failed == {Pair(content_requests[i]) :
                        i \in {k \in 1..Len(tasks) : tasks[k].result.none}}
           fetched == {Pair(content_requests[i]) :
                        i \in {k \in 1..Len(tasks) : ~tasks[k].result.none}}
       IN  /\ raw_results' = File(out.raw)
           /\ success_count' = out.success
           /\ failure_count' = out.failure
           /\ lost' = (lost \ fetched) \cup failed
    /\ fetch_pc' = "done"
    /\ UNCHANGED <<content_requests, tasks, faults>>

FetchIdle ==
    /\ fetch_pc = "idle"
    /\ content_requests = <<>>
    /\ tasks = <<>>
    /\ faults = <<>>
    /\ raw_results = Absent
    /\ success_count = 0
    /\ failure_count = 0
    /\ lost = {}

\* Stage 2 handed any request file
FetchInit ==
    /\ FetchIdle
    /\ is_github = FALSE
    /\ current_json = Absent
    /\ content_request \in {Absent} \cup {File(s) : s \in SeqsUpTo(FetchRequests, MaxRequests)}
    /\ latest_retrieval = NoneResult
    /\ new_entries = <<>>
    /\ load_status = "skipped"
    /\ save_status = "skipped"
    /\ runs = 0

\* Stage 2 handed any request file of up to MaxInFlight requests
FetchLiveInit ==
    /\ FetchIdle
    /\ is_github = FALSE
    /\ current_json = Absent
    /\ content_request \in {Absent} \cup {File(s) : s \in SeqsUpTo(FetchRequests, MaxInFlight)}
    /\ latest_retrieval = NoneResult
    /\ new_entries = <<>>
    /\ load_status = "skipped"
    /\ save_status = "skipped"
    /\ runs = 0

\* the pipeline starts on an empty known-state log, nothing fetched yet
PipelineInit ==
    /\ FetchIdle
    /\ is_github \in BOOLEAN
    /\ current_json = File(<<>>)
    /\ content_request = Absent
    /\ latest_retrieval = NoneResult
    /\ new_entries = <<>>
    /\ load_status = "skipped"
    /\ save_status = "skipped"
    /\ runs = 0

-----------------------------------------------------------------------------
(* curate.parse_curation_response *)

\* full records of the batch
ProcessedItems ==
    { [channel |-> "A", type |-> "youtube", duration |-> "1h 30m", reason |-> ""],
      [channel |-> "B", type |-> "website", duration |-> "45s", reason |-> ""] }

\* the idx of a verdict as JSON gives it: an integer n, the string of an integer
\* n, a non-numeric string, a float of n halves, null, a list, or no idx key
IdxValues ==
    {[kind |-> "int", n |-> k] : k \in {-1, 0, 1}}
      \cup {[kind |-> "numstr", n |-> 1], [kind |-> "badstr", n |-> 0],
            [kind |-> "float", n |-> -1], [kind |-> "null", n |-> 0],
            [kind |-> "list", n |-> 0], [kind |-> "missing", n |-> 0]}

\* verdicts; the ones without a reason key are tried on three idx values
Verdicts ==
    {v \in [idx : IdxValues, has_reason : BOOLEAN, reason : {"why"}] :
        v.has_reason \/ v.idx \in {[kind |-> "int", n |-> 0], [kind |-> "int", n |-> -1],
                                    [kind |-> "null", n |-> 0]}}

\* int(item["idx"]), line 123: the value, or the exception raised
PyInt(idx) ==
    IF idx.kind = "missing" THEN [exc |-> "KeyError", value |-> 0]
    ELSE IF idx.kind = "int" THEN [exc |-> "", value |-> idx.n]
    ELSE IF idx.kind = "numstr" THEN [exc |-> "", value |-> idx.n]
    ELSE IF idx.kind = "badstr" THEN [exc |-> "ValueError", value |-> 0]
    ELSE IF idx.kind = "float"
         THEN [exc |-> "",
               value |-> IF idx.n >= 0 THEN idx.n \div 2 ELSE -((-idx.n) \div 2)]
    ELSE [exc |-> "TypeError", value |-> 0]

\* variant: no lower bound on the index
InRangeNoLowerBound(index, n) == index < n

\* line 124
InRange(index, n) == 0 <= index /\ index < n

NoItem == [channel |-> "", type |-> "", duration |-> "", reason |-> ""]

\* lines 122-131 for one verdict: the item appended, or nothing, or the exception
\* that leaves the try block
ProcessVerdict(item, processed_data) ==
    LET r == PyInt(item.idx)
        n == Len(processed_data)
    IN  IF r.exc # "" THEN [exc |-> r.exc, keep |-> FALSE, content_item |-> NoItem]
        ELSE IF InRange(r.value, n)
        THEN IF r.value >= n \/ r.value < -n
             THEN [exc |-> "IndexError", keep |-> FALSE, content_item |-> NoItem]
             ELSE IF ~item.has_reason
             THEN [exc |-> "KeyError", keep |-> FALSE, content_item |-> NoItem]
             ELSE [exc |-> "", keep |-> TRUE,
                   content_item |->
                       [processed_data[IF r.value >= 0 THEN r.value + 1
                                       ELSE n + r.value + 1]
                            EXCEPT !.reason = item.reason]]
        ELSE [exc |-> "", keep |-> FALSE, content_item |-> NoItem]

\* except (ValueError, KeyError), line 130
Caught(exc) == exc \in {"ValueError", "KeyError"}

\* one of the three loops: the bucket built, or the exception that escapes
RECURSIVE ParseBucket(_, _, _)
ParseBucket(verdicts, processed_data, acc) ==
    IF verdicts = <<>> THEN [exc |-> "", items |-> acc]
    ELSE LET r == ProcessVerdict(Head(verdicts), processed_data)
         IN  IF r.exc # "" /\ ~Caught(r.exc) THEN [exc |-> r.exc, items |-> acc]
             ELSE ParseBucket(Tail(verdicts), processed_data,
                              IF r.keep THEN Append(acc, r.content_item) ELSE acc)

\* a parsed judgment response
Buckets(a, b, c) == [must_see |-> a, might_be_interested |-> b, you_may_skip |-> c]

\* every split of up to MaxVerdicts verdicts over the three buckets
Responses ==
    {Buckets(SubSeq(t[1], 1, t[2]), SubSeq(t[1], t[2] + 1, t[3]),
             SubSeq(t[1], t[3] + 1, Len(t[1]))) :
        t \in {u \in SeqsUpTo(Verdicts, MaxVerdicts) \X (0..MaxVerdicts) \X (0..MaxVerdicts) :
                  u[2] <= u[3] /\ u[3] <= Len(u[1])}}

\* what json.loads gives parse_curation_response: None stands for a response that
\* did not parse
Json(kind, value) == [kind |-> kind, value |-> value]
EmptyBuckets == Buckets(<<>>, <<>>, <<>>)

Falsy(curated_content) ==
    curated_content.kind \in {"None", "null", "empty_object", "empty_array"}

NoResult == [kind |-> "None", exc |-> "", value |-> EmptyBuckets]

parse_curation_response(curated_content, processed_data) ==
    IF Falsy(curated_content) THEN NoResult
    ELSE IF curated_content.kind # "object"
    THEN [kind |-> "raised", exc |-> "AttributeError", value |-> EmptyBuckets]
    ELSE LET a == ParseBucket(curated_content.value.must_see, processed_data, <<>>)
             b == ParseBucket(curated_content.value.might_be_interested,
                              processed_data, <<>>)
             c == ParseBucket(curated_content.value.you_may_skip, processed_data, <<>>)
         IN  IF a.exc # "" THEN [kind |-> "raised", exc |-> a.exc, value |-> EmptyBuckets]
             ELSE IF b.exc # ""
             THEN [kind |-> "raised", exc |-> b.exc, value |-> EmptyBuckets]
             ELSE IF c.exc # ""
             THEN [kind |-> "raised", exc |-> c.exc, value |-> EmptyBuckets]
             ELSE [kind |-> "dict", exc |-> "", value |-> Buckets(a.items, b.items, c.items)]

-----------------------------------------------------------------------------
(* curate.get_llm_curation / curate_content / main *)

\* the judgment-service call: it raises, or returns text that is not JSON, or
\* text that json.loads turns into a value
ServiceOutcomes ==
    {Json(k, EmptyBuckets) :
        k \in {"raises", "not_json", "null", "empty_object", "empty_array", "array"}}
      \cup {Json("object", r) : r \in Responses}

\* lines 87-96
get_llm_curation(svc) ==
    IF svc.kind = "raises" THEN [exc |-> "Exception", content |-> Json("None", EmptyBuckets)]
    ELSE IF svc.kind = "not_json" THEN [exc |-> "", content |-> Json("None", EmptyBuckets)]
    ELSE [exc |-> "", content |-> svc]

\* lines 173-178
curate_content(svc, processed_data) ==
    LET curated_content == get_llm_curation(svc)
    IN  IF curated_content.exc # ""
        THEN [kind |-> "raised", exc |-> curated_content.exc, value |-> EmptyBuckets]
        ELSE parse_curation_response(curated_content.content, processed_data)

\* variant: main writes whatever curate_content returned
WritesResultAlways(result) == result.kind # "raised"

\* main, line 204
WritesResult(result) == result.kind = "dict"

\* the curated-results document as json.dump writes it
CuratedDoc(result) == [kind |-> result.kind, value |-> result.value]

CurateMain(svc) ==
    /\ curate_outcome = "idle"
    /\ service' = svc
    /\ IF ~processed_results.exists
       THEN /\ curate_outcome' = "no_input"
            /\ UNCHANGED curated_results
       ELSE LET result == curate_content(svc, processed_results.data)
            IN  IF result.kind = "raised"
                THEN /\ curate_outcome' = "raised"
                     /\ UNCHANGED curated_results
                ELSE IF WritesResult(result)
                THEN /\ curated_results' = File(CuratedDoc(result))
                     /\ curate_outcome' = "saved"
                ELSE /\ curate_outcome' = "failed"
                     /\ UNCHANGED curated_results
    /\ UNCHANGED processed_results

\* a curated-results file an earlier run of the day left
OldCurated ==
    [kind |-> "dict",
     value |-> Buckets(<<[channel |-> "A", type |-> "youtube", duration |-> "1h 30m",
                          reason |-> "earlier"]>>, <<>>, <<>>)]

CurateInit ==
    /\ processed_results \in
          {Absent} \cup {File(b) : b \in SeqsUpTo(ProcessedItems, MaxBatch)}
    /\ curated_results \in {Absent, File(OldCurated)}
    /\ service = Json("none_yet", EmptyBuckets)
    /\ curate_outcome = "idle"

CurateIdle ==
    /\ processed_results = Absent
    /\ curated_results = Absent
    /\ service = Json("none_yet", EmptyBuckets)
    /\ curate_outcome = "idle"

-----------------------------------------------------------------------------
(* curate.parse_duration_to_seconds *)
(* A str is a sequence of one-character strings.                            *)

Digits == <<"0", "1", "2", "3", "4", "5", "6", "7", "8", "9">>

IsDigit(c) == \E d \in 1..Len(Digits) : Digits[d] = c

DigitValue(c) == (CHOOSE d \in 1..Len(Digits) : Digits[d] = c) - 1

\* str.isdigit()
isdigit(s) == s # <<>> /\ \A i \in 1..Len(s) : IsDigit(s[i])

\* int() of a run of decimal digits
RECURSIVE DecValue(_)
DecValue(s) ==
    IF s = <<>> THEN 0
    ELSE 10 * DecValue(SubSeq(s, 1, Len(s) - 1)) + DigitValue(s[Len(s)])

\* str(n) for n >= 0
RECURSIVE DecStr(_)
DecStr(n) ==
    IF n < 10 THEN <<Digits[n + 1]>>
    ELSE DecStr(n \div 10) \o <<Digits[(n % 10) + 1]>>

\* \d+ is greedy: from position i it takes the digits up to the end of the run
RECURSIVE RunEnd(_, _)
RunEnd(s, i) ==
    IF i < Len(s) /\ IsDigit(s[i + 1]) THEN RunEnd(s, i + 1) ELSE i

\* (\d+)<unit> tried at start position i; giving digits back never helps,
\* since the character after a shorter prefix is a digit
MatchAt(s, i, unit) ==
    /\ IsDigit(s[i])
    /\ RunEnd(s, i) < Len(s)
    /\ s[RunEnd(s, i) + 1] = unit

NoMatch == [found |-> FALSE, group |-> <<>>]

\* re.search(r'(\d+)<unit>', s): the match at the leftmost start position
search(s, unit) ==
    LET starts == {i \in 1..Len(s) : MatchAt(s, i, unit)}
    IN  IF starts = {} THEN NoMatch
        ELSE LET i == CHOOSE k \in starts : \A o \in starts : k <= o
             IN  [found |-> TRUE, group |-> SubSeq(s, i, RunEnd(s, i))]

\* str.strip()
RECURSIVE lstrip(_)
lstrip(s) == IF s # <<>> /\ Head(s) = " " THEN lstrip(Tail(s)) ELSE s

RECURSIVE rstrip(_)
rstrip(s) ==
    IF s # <<>> /\ s[Len(s)] = " " THEN rstrip(SubSeq(s, 1, Len(s) - 1)) ELSE s

strip(s) == lstrip(rstrip(s))

\* int(s) at line 56: blanks around, an optional sign, decimal digits;
\* anything else raises ValueError
IntOfStr(s) ==
    LET body == strip(s)
        signed == body # <<>> /\ Head(body) \in {"-", "+"}
        digits == IF signed THEN Tail(body) ELSE body
    IN  IF isdigit(digits)
        THEN [ok |-> TRUE,
              value |-> IF signed /\ Head(body) = "-" THEN 0 - DecValue(digits)
                        ELSE DecValue(digits)]
        ELSE [ok |-> FALSE, value |-> 0]

\* variant: a minute counts as a second
MultiplierMinuteAsSecond(unit) == IF unit = "h" THEN 3600 ELSE 1

\* lines 41, 46, 51
Multiplier(unit) == IF unit = "h" THEN 3600 ELSE IF unit = "m" THEN 60 ELSE 1

\* lines 39-51, one unit
Seconds(s, unit) ==
    LET match == search(s, unit)
    IN  IF match.found THEN DecValue(match.group) * Multiplier(unit) ELSE 0

\* the argument is an int ([kind |-> "int", n]) or a str ([kind |-> "str", s])
parse_duration_to_seconds(duration_str) ==
    IF duration_str.kind = "int" THEN duration_str.n
    ELSE IF isdigit(duration_str.s) THEN DecValue(duration_str.s)
    ELSE LET total_seconds == Seconds(duration_str.s, "h")
                                + Seconds(duration_str.s, "m")
                                + Seconds(duration_str.s, "s")
         IN  IF total_seconds = 0 /\ strip(duration_str.s) # <<>>
             THEN (IF IntOfStr(duration_str.s).ok
                   THEN IntOfStr(duration_str.s).value
                   ELSE 0)
             ELSE total_seconds

\* characters of the free-form strings
DurChars == {"0", "1", "5", "h", "m", "s", " ", "-", "x"}

\* amounts of a unit in a composite duration; -1: the unit is left out
Amounts == {-1, 0, 1, 2, 15, 30, 45}

Parts == [h : Amounts, m : Amounts, s : Amounts]

NoParts == [h |-> -1, m |-> -1, s |-> -1]

Group(n, unit) == IF n < 0 THEN <<>> ELSE DecStr(n) \o <<unit>>

\* "1h 30m" (sep = " ") or "1h30m" (sep = ""), the way the connectors write it
Composite(p, sep) ==
    LET h == Group(p.h, "h")
        m == Group(p.m, "m")
        s == Group(p.s, "s")
    IN  h \o (IF h # <<>> /\ (m # <<>> \/ s # <<>>) THEN sep ELSE <<>>)
          \o m \o (IF m # <<>> /\ s # <<>> THEN sep ELSE <<>>)
          \o s

\* arguments: ints, decimal numerals, composite durations, free-form strings;
\* n records the number a numeral was written from, parts the amounts a
\* composite was written from
DurationInputs ==
    {[kind |-> "int", n |-> n, s |-> <<>>, parts |-> NoParts] : n \in {-5, 0, 90}}
      \cup {[kind |-> "str", n |-> n, s |-> DecStr(n), parts |-> NoParts] :
                n \in {0, 7, 90, 5400}}
      \cup {[kind |-> "str", n |-> -1, s |-> Composite(p, sep), parts |-> p] :
                p \in Parts \ {NoParts}, sep \in {<<" ">>, <<>>}}
      \cup {[kind |-> "str", n |-> -1, s |-> s, parts |-> NoParts] :
                s \in SeqsUpTo(DurChars, MaxDur)}

-----------------------------------------------------------------------------
(* Harness for the pure functions *)

DedupIdle ==
    /\ dd_pc = "in"
    /\ dd_in = <<>>
    /\ dd_out = <<>>

DurationIdle ==
    /\ pd_pc = "in"
    /\ pd_in = [kind |-> "int", n |-> 0, s |-> <<>>, parts |-> NoParts]
    /\ pd_out = 0

FilterFnIdle ==
    /\ fn_pc = "in"
    /\ fn_latest = <<>>
    /\ fn_known = <<>>
    /\ fn_out = [new_entries |-> <<>>, current_entries |-> <<>>]

PureIdle == DedupIdle /\ DurationIdle /\ FilterFnIdle

DedupInit ==
    /\ dd_pc = "in"
    /\ dd_in \in SeqsUpTo(AllKnownEntries, MaxLen)
    /\ dd_out = <<>>
    /\ DurationIdle
    /\ FilterFnIdle

DurationInit ==
    /\ pd_pc = "in"
    /\ pd_in \in DurationInputs
    /\ pd_out = 0
    /\ DedupIdle
    /\ FilterFnIdle

ApplyParseDuration ==
    /\ pd_pc = "in"
    /\ pd_pc' = "out"
    /\ pd_out' = parse_duration_to_seconds(pd_in)
    /\ UNCHANGED <<pd_in, ddVars, fnVars>>

FilterFnInit ==
    /\ fn_pc = "in"
    /\ fn_latest \in SeqsUpTo(CacheItems, MaxLen)
    /\ fn_known \in SeqsUpTo(KnownEntries, MaxLen)
    /\ fn_out = [new_entries |-> <<>>, current_entries |-> <<>>]
    /\ DedupIdle
    /\ DurationIdle

ApplyFilterNewEntries ==
    /\ fn_pc = "in"
    /\ fn_pc' = "out"
    /\ fn_out' = filter_new_entries(fn_latest, fn_known)
    /\ UNCHANGED <<fn_latest, fn_known, ddVars, pdVars>>

ApplyDedup ==
    /\ dd_pc = "in"
    /\ dd_pc' = "out"
    /\ dd_out' = deduplicate_current_entries(dd_in)
    /\ UNCHANGED <<dd_in, pdVars, fnVars>>

-----------------------------------------------------------------------------
(* Specifications *)

\* Stage 1 alone
SpecFilterInit == FilterInit /\ FetchIdle /\ CurateIdle /\ PureIdle
SpecFilterNext ==
    /\ runs < MaxRuns
    /\ \E latest \in LatestRetrievals, env \in RunEnvs(is_github) :
          FilterMain(latest, env) /\ UNCHANGED <<fetchVars, curateVars, pureVars>>
SpecFilter == SpecFilterInit /\ [][SpecFilterNext]_vars

\* Stage 1 in remote-store mode, GIST_ID not set in the environment
UnconfiguredEnvs == {e \in RunEnvs(TRUE) : ~e.gist_id}
SpecFilterUnconfiguredInit == SpecFilterInit /\ is_github
SpecFilterUnconfiguredNext ==
    /\ runs < MaxRuns
    /\ \E latest \in LatestRetrievals, env \in UnconfiguredEnvs :
          FilterMain(latest, env) /\ UNCHANGED <<fetchVars, curateVars, pureVars>>
SpecFilterUnconfigured ==
    SpecFilterUnconfiguredInit /\ [][SpecFilterUnconfiguredNext]_vars

\* deduplicate_current_entries on every bounded list
SpecDedupInit == DedupInit /\ FilterIdle /\ FetchIdle /\ CurateIdle
SpecDedupNext == ApplyDedup /\ UNCHANGED <<filterVars, fetchVars, curateVars>>
SpecDedup == SpecDedupInit /\ [][SpecDedupNext]_vars

\* filter_new_entries on every bounded cache list and known list
SpecFilterFnInit == FilterFnInit /\ FilterIdle /\ FetchIdle /\ CurateIdle
SpecFilterFnNext == ApplyFilterNewEntries /\ UNCHANGED <<filterVars, fetchVars, curateVars>>
SpecFilterFn == SpecFilterFnInit /\ [][SpecFilterFnNext]_vars

\* parse_duration_to_seconds on every bounded argument
SpecDurationInit == DurationInit /\ FilterIdle /\ FetchIdle /\ CurateIdle
SpecDurationNext == ApplyParseDuration /\ UNCHANGED <<filterVars, fetchVars, curateVars>>
SpecDuration == SpecDurationInit /\ [][SpecDurationNext]_vars

\* Stage 2 alone, on any request file
SpecFetchInit == FetchInit /\ CurateIdle /\ PureIdle
SpecFetchStart == FetchStart /\ UNCHANGED <<filterVars, curateVars, pureVars>>
SpecFetchResolve ==
    \E i \in 1..Len(tasks), outcome \in ConnectorOutcomes :
        TaskResolve(i, outcome) /\ UNCHANGED <<filterVars, curateVars, pureVars>>
SpecFetchFinish == FetchFinish /\ UNCHANGED <<filterVars, curateVars, pureVars>>
SpecFetchNext == SpecFetchStart \/ SpecFetchResolve \/ SpecFetchFinish
SpecFetch == SpecFetchInit /\ [][SpecFetchNext]_vars

\* the event loop resumes main once gather's future is done; a connector
\* call may never return, so the coroutines get no fairness
SpecFetchLiveInit == FetchLiveInit /\ CurateIdle /\ PureIdle
SpecFetchLive ==
    SpecFetchLiveInit /\ [][SpecFetchNext]_vars /\ WF_vars(SpecFetchFinish)

\* Stages 1 and 2 run one after the other, day after day, every store read and
\* write succeeding
SpecPipelineInit == PipelineInit /\ CurateIdle /\ PureIdle
SpecPipelineFilter ==
    /\ fetch_pc # "gathering"
    /\ runs < MaxRuns
    /\ \E latest \in LatestRetrievals :
          FilterMain(latest, OkEnv) /\ UNCHANGED <<fetchVars, curateVars, pureVars>>
SpecPipelineNext ==
    SpecPipelineFilter \/ SpecFetchStart \/ SpecFetchResolve \/ SpecFetchFinish
SpecPipeline == SpecPipelineInit /\ [][SpecPipelineNext]_vars

\* Stage 3 alone, on any batch and any behaviour of the judgment service
SpecCurateInit == CurateInit /\ FilterIdle /\ FetchIdle /\ PureIdle
SpecCurateNext ==
    /\ curate_outcome = "idle"
    /\ \E svc \in ServiceOutcomes :
          CurateMain(svc) /\ UNCHANGED <<filterVars, fetchVars, pureVars>>
SpecCurate == SpecCurateInit /\ [][SpecCurateNext]_vars

-----------------------------------------------------------------------------
(* Properties of Stage 1 *)

FilterRan == runs' = runs + 1

EmptyCache(latest) == ~latest.none /\ latest.items = <<>>

SameChannelTwice(entries) ==
    \E i, j \in 1..Len(entries) : i < j /\ entries[i].channel = entries[j].channel

\* C1: a second run of filter.main against the same metadata cache and the log
\* the first run left emits no new entries (stated for the runs in which the
\* log was read and written without error).
C1_IdempotentRerun ==
    [][(/\ FilterRan
        /\ runs >= 1
        /\ latest_retrieval' = latest_retrieval
        /\ load_status = "ok" /\ save_status = "ok"
        /\ load_status' = "ok" /\ save_status' = "ok")
       => new_entries' = <<>>]_vars

\* C2: every channel with an entry in the persisted log before a run of
\* filter.main still has one after it, with a published_at that is not smaller.
C2_LogNeverDropped ==
    [][FilterRan =>
        \A i \in 1..Len(current_json.data) :
            \E j \in 1..Len(current_json'.data) :
                /\ current_json'.data[j].channel = current_json.data[i].channel
                /\ ~StrGreater(current_json.data[i].published_at,
                               current_json'.data[j].published_at)]_vars

\* C5: a run whose metadata cache is missing or empty neither reads nor writes
\* the known-state log, which stays as it was, duplicates included.
C5_EmptyRunFrame ==
    [][(FilterRan /\ (latest_retrieval'.none \/ latest_retrieval'.items = <<>>))
       => /\ current_json' = current_json
          /\ load_status' = "skipped"
          /\ save_status' = "skipped"]_vars

C5_Witness ==
    /\ runs >= 1
    /\ EmptyCache(latest_retrieval)
    /\ current_json.exists
    /\ SameChannelTwice(current_json.data)

\* C6 as claimed: after a run on an empty metadata cache the content-request
\* file exists and holds an empty list.
C6_EmptyCacheWritesEmptyFile ==
    [][(FilterRan /\ EmptyCache(latest_retrieval'))
       => content_request' = File(<<>>)]_vars

\* C6 as amended: a run on an empty or missing metadata cache leaves the
\* content-request file as it was; it is not created when it did not exist.
C6_EmptyCacheLeavesRequestFile ==
    [][(FilterRan /\ (latest_retrieval'.none \/ latest_retrieval'.items = <<>>))
       => content_request' = content_request]_vars

C6_Witness ==
    /\ runs >= 1
    /\ EmptyCache(latest_retrieval)
    /\ ~content_request.exists

\* C12: a run in remote-store mode without GIST_ID emits no content requests
\* and writes nothing to the known-state store.
C12_MissingConfigStopsRun ==
    [][(FilterRan /\ is_github)
       => /\ new_entries' = <<>>
          /\ content_request' = content_request
          /\ current_json' = current_json]_vars

\* C13: when a run on a non-empty metadata cache has returned, the content
\* requests it emitted are in the request file and each of them is covered by
\* the persisted log: its channel has an entry there, not older than it.
C13_BothOutputsPersisted ==
    [][(FilterRan /\ ~NoCachedContent(latest_retrieval'))
       => /\ content_request' = File(new_entries')
          /\ \A i \in 1..Len(new_entries') :
                \E j \in 1..Len(current_json'.data) :
                    /\ current_json'.data[j].channel = new_entries'[i].channel
                    /\ ~StrGreater(new_entries'[i].published_at,
                                   current_json'.data[j].published_at)]_vars

\* C16: the content-request list of a run holds no two items with the same
\* (channel, published_at) pair.
C16_NoDuplicateRequests ==
    \A i, j \in 1..Len(content_request.data) :
        i < j => Pair(content_request.data[i]) # Pair(content_request.data[j])

-----------------------------------------------------------------------------
(* Properties of Stage 2 and of the two stages together *)

\* C3: a publication whose content request was emitted and whose retrieval
\* failed is requested again by a later run of filter.main whose metadata
\* cache still reports the same (channel, published_at).
C3_NoPublicationLost ==
    [][FilterRan =>
        \A i \in 1..Len(latest_retrieval'.items) :
            Pair(latest_retrieval'.items[i]) \in lost
                => \E j \in 1..Len(new_entries') :
                       new_entries'[j] = latest_retrieval'.items[i]]_vars

\* a request fails when its connector raises, when it is a website request
\* without source_url, or when its type is unsupported
RequestFailed(i) ==
    \/ faults[i] \in {"ValueError", "Exception"}
    \/ content_requests[i].type = "website" /\ content_requests[i].source_url = ""
    \/ content_requests[i].type \notin {"youtube", "podcast", "bilibili", "website"}

RECURSIVE RecordsOfSucceeded(_)
RecordsOfSucceeded(i) ==
    IF i > Len(content_requests) THEN <<>>
    ELSE (IF RequestFailed(i) THEN <<>> ELSE <<Details(content_requests[i])>>)
            \o RecordsOfSucceeded(i + 1)

FailedRequests == {i \in 1..Len(content_requests) : RequestFailed(i)}

\* C7: once Stage 2 has run on a batch, the raw-results file holds exactly the
\* records of the requests that did not fail, in request order, and the two
\* counters are the numbers of non-failed and failed requests.
C7_PartialFailureIsolated ==
    (fetch_pc = "done" /\ content_request.exists) =>
        /\ raw_results = File(RecordsOfSucceeded(1))
        /\ failure_count = Cardinality(FailedRequests)
        /\ success_count = Len(content_requests) - Cardinality(FailedRequests)
        /\ success_count + failure_count = Len(content_requests)

C7_Witness ==
    /\ fetch_pc = "done"
    /\ Len(content_requests) = 3
    /\ faults[1] = "details"
    /\ faults[2] = "Exception"
    /\ faults[3] = "details"
    /\ content_requests[1] # content_requests[3]
    /\ raw_results = File(<<Details(content_requests[1]), Details(content_requests[3])>>)
    /\ success_count = 2
    /\ failure_count = 1

AllResolved == \A i \in 1..Len(tasks) : tasks[i].state = "done"

Dispatched == fetch_pc # "gathering" /\ fetch_pc' = "gathering"

StillGathering == fetch_pc = "gathering" /\ fetch_pc' = "gathering"

Wrote ==
    \/ raw_results' # raw_results
    \/ success_count' # success_count
    \/ failure_count' # failure_count

\* C15: the batch is dispatched whole before anything is post-processed; while
\* the stage is suspended a step resolves one request, touches that request's
\* slot only and writes nothing, whatever the order of completion; results
\* are counted and the raw-results artifact written only when every request
\* has resolved; and once every request has resolved the artifact is
\* eventually written.
C15_FireAllAwaitAll ==
    /\ [][(Dispatched =>
               /\ Len(tasks') = Len(content_request.data)
               /\ \A i \in 1..Len(tasks') : tasks'[i] = Pending
               /\ raw_results' = raw_results)
          /\ (StillGathering =>
               /\ \E i \in 1..Len(tasks) :
                     /\ tasks[i].state = "pending"
                     /\ tasks'[i].state = "done"
                     /\ \A k \in (1..Len(tasks)) \ {i} : tasks'[k] = tasks[k]
               /\ ~Wrote)
          /\ ((fetch_pc = "gathering" /\ Wrote) => AllResolved)]_vars
    /\ (fetch_pc = "gathering" /\ AllResolved)
          ~> (fetch_pc = "done" /\ raw_results.exists)

\* the second request has resolved before the first, nothing written yet
C15_Witness ==
    /\ fetch_pc = "gathering"
    /\ Len(tasks) >= 2
    /\ tasks[1].state = "pending"
    /\ tasks[2].state = "done"
    /\ ~raw_results.exists

-----------------------------------------------------------------------------
(* Properties of Stage 3 *)

\* the integer a verdict's idx stands for, when it stands for one
ResolvesToInt(v) == v.idx.kind \in {"int", "numstr", "float"}

ResolvedIdx(v) ==
    IF v.idx.kind = "float"
    THEN (IF v.idx.n >= 0 THEN v.idx.n \div 2 ELSE -((-v.idx.n) \div 2))
    ELSE v.idx.n

\* the verdict names a record of the batch and carries a reason
Places(v, batch) ==
    /\ ResolvesToInt(v)
    /\ 0 <= ResolvedIdx(v)
    /\ ResolvedIdx(v) < Len(batch)
    /\ v.has_reason

RECURSIVE ExpectedBucket(_, _)
ExpectedBucket(verdicts, batch) ==
    IF verdicts = <<>> THEN <<>>
    ELSE (IF Places(Head(verdicts), batch)
          THEN <<[batch[ResolvedIdx(Head(verdicts)) + 1]
                    EXCEPT !.reason = Head(verdicts).reason]>>
          ELSE <<>>)
            \o ExpectedBucket(Tail(verdicts), batch)

ExpectedCurated(response, batch) ==
    [kind |-> "dict",
     value |-> Buckets(ExpectedBucket(response.must_see, batch),
                       ExpectedBucket(response.might_be_interested, batch),
                       ExpectedBucket(response.you_may_skip, batch))]

AllVerdicts(response) ==
    response.must_see \o response.might_be_interested \o response.you_may_skip

\* curate.main got a batch and a judgment response that is a JSON object
CuratedAnObject ==
    /\ curate_outcome # "idle"
    /\ processed_results.exists
    /\ service.kind = "object"

\* C8: every item parse_curation_response places in a bucket is the copy of
\* batch[idx] for a verdict of that bucket whose idx, as int() resolves it, has
\* 0 <= idx < len(batch), in verdict order; a verdict with an integer idx outside
\* that range adds nothing, and a response whose idx values are all integers is
\* processed to the end without an exception.
C8_BoundsSafety ==
    CuratedAnObject =>
        /\ curate_outcome = "saved"
              => curated_results = File(ExpectedCurated(service.value, processed_results.data))
        /\ (\A i \in 1..Len(AllVerdicts(service.value)) :
                AllVerdicts(service.value)[i].idx.kind = "int")
              => curate_outcome = "saved"

C8_Witness ==
    /\ CuratedAnObject
    /\ curate_outcome = "saved"
    /\ Len(service.value.must_see) = 2
    /\ service.value.must_see[1].idx.kind = "int"
    /\ service.value.must_see[1].has_reason
    /\ (\/ service.value.must_see[1].idx.n < 0
        \/ service.value.must_see[1].idx.n >= Len(processed_results.data))
    /\ Len(curated_results.data.value.must_see) = 1

\* C9: a verdict whose idx is not an integer (non-numeric string, null, list,
\* missing key) or that has no reason is dropped, its siblings are processed and
\* no exception leaves parse_curation_response.
C9_MalformedVerdictsDropped ==
    CuratedAnObject =>
        /\ curate_outcome = "saved"
        /\ curated_results = File(ExpectedCurated(service.value, processed_results.data))

CurateRan == curate_outcome = "idle" /\ curate_outcome' # "idle"

\* C10 as claimed: when the judgment-service call raises or its response is not
\* JSON, curate_content yields None, main reports the failure and the
\* curated-results file is untouched; a file that is written is the complete
\* three-bucket object.
C10_AllOrNothing ==
    [][(CurateRan /\ processed_results.exists) =>
        /\ service'.kind \in {"raises", "not_json"}
              => (curate_outcome' = "failed" /\ curated_results' = curated_results)
        /\ curated_results' # curated_results
              => curated_results'.data.kind = "dict"]_vars

\* C10 as amended: a raising judgment-service call ends curate.main by that
\* exception and a response that is not JSON ends it with "Curation failed";
\* neither touches the curated-results file, and a file that is written is the
\* complete three-bucket object of a run that succeeded.
C10_AllOrNothingAmended ==
    [][(CurateRan /\ processed_results.exists) =>
        /\ service'.kind = "raises"
              => (curate_outcome' = "raised" /\ curated_results' = curated_results)
        /\ service'.kind = "not_json"
              => (curate_outcome' = "failed" /\ curated_results' = curated_results)
        /\ curated_results' # curated_results
              => /\ curate_outcome' = "saved"
                 /\ service'.kind = "object"
                 /\ curated_results' =
                        File(ExpectedCurated(service'.value, processed_results.data))]_vars

C10_Witness ==
    /\ processed_results.exists
    /\ service.kind = "raises"
    /\ curate_outcome = "raised"
    /\ curated_results = File(OldCurated)

-----------------------------------------------------------------------------
(* Properties of deduplicate_current_entries *)

ChannelsOf(entries) == {entries[i].channel : i \in 1..Len(entries)}

\* C4: the result has exactly one entry per distinct channel of the input, and
\* each is an input entry whose published_at no input entry of its channel exceeds.
C4_DedupInvariant ==
    dd_pc = "out" =>
        /\ Len(dd_out) = Cardinality(ChannelsOf(dd_in))
        /\ ChannelsOf(dd_out) = ChannelsOf(dd_in)
        /\ \A j \in 1..Len(dd_out) :
              /\ \E i \in 1..Len(dd_in) : dd_in[i] = dd_out[j]
              /\ \A i \in 1..Len(dd_in) :
                    dd_in[i].channel = dd_out[j].channel
                        => ~StrGreater(dd_in[i].published_at, dd_out[j].published_at)

C4_Witness ==
    /\ dd_pc = "out"
    /\ Len(dd_out) = 2
    /\ \E i, j \in 1..Len(dd_in) :
          /\ i < j
          /\ dd_in[i].channel = dd_in[j].channel
          /\ StrGreater(dd_in[j].published_at, dd_in[i].published_at)
          /\ \E k \in 1..Len(dd_out) : dd_out[k] = dd_in[j]

-----------------------------------------------------------------------------
(* Properties of filter_new_entries *)

KnownPairs == {Pair(fn_known[i]) : i \in 1..Len(fn_known)}

\* positions of latest whose pair is not among the known pairs on entry
NewPositions == {i \in 1..Len(fn_latest) : Pair(fn_latest[i]) \notin KnownPairs}

\* the k-th of them, in input order
NewPosition(k) ==
    CHOOSE i \in NewPositions : Cardinality({j \in NewPositions : j <= i}) = k

\* C14: new_entries holds exactly the items of latest whose (channel,
\* published_at) pair is not among the pairs of the known list as on entry,
\* in input order; the returned known list is the original one followed by
\* one {channel, published_at} entry per new item, in the same order.
C14_FilterContract ==
    fn_pc = "out" =>
        /\ Len(fn_out.new_entries) = Cardinality(NewPositions)
        /\ \A k \in 1..Len(fn_out.new_entries) :
              fn_out.new_entries[k] = fn_latest[NewPosition(k)]
        /\ Len(fn_out.current_entries) = Len(fn_known) + Len(fn_out.new_entries)
        /\ SubSeq(fn_out.current_entries, 1, Len(fn_known)) = fn_known
        /\ \A k \in 1..Len(fn_out.new_entries) :
              fn_out.current_entries[Len(fn_known) + k] =
                  [channel |-> fn_out.new_entries[k].channel,
                   published_at |-> fn_out.new_entries[k].published_at]

\* a known item skipped, and the same new item twice in the cache list
C14_Witness ==
    /\ fn_pc = "out"
    /\ fn_known # <<>>
    /\ Len(fn_latest) = 3
    /\ Len(fn_out.new_entries) = 2
    /\ fn_out.new_entries[1] = fn_out.new_entries[2]

-----------------------------------------------------------------------------
(* Properties of parse_duration_to_seconds *)

\* the number a run of decimal digits denotes, read from the left
RECURSIVE Denotes(_, _)
Denotes(s, acc) ==
    IF s = <<>> THEN acc ELSE Denotes(Tail(s), 10 * acc + DigitValue(Head(s)))

\* positions of the unit letters that close a group <digits><unit>
GroupEnds(s, unit) == {j \in 2..Len(s) : s[j] = unit /\ IsDigit(s[j - 1])}

\* the digits of the first group of the unit
FirstGroup(s, unit) ==
    LET j == CHOOSE k \in GroupEnds(s, unit) : \A o \in GroupEnds(s, unit) : k <= o
        i == CHOOSE k \in 1..(j - 1) :
                /\ \A d \in k..(j - 1) : IsDigit(s[d])
                /\ (k = 1 \/ ~IsDigit(s[k - 1]))
    IN  SubSeq(s, i, j - 1)

GroupAmount(s, unit) ==
    IF GroupEnds(s, unit) = {} THEN 0 ELSE Denotes(FirstGroup(s, unit), 0)

HasGroup(s) == \E unit \in {"h", "m", "s"} : GroupEnds(s, unit) # {}

AllDigits(s) == s # <<>> /\ \A i \in 1..Len(s) : s[i] \in {Digits[d] : d \in 1..Len(Digits)}

\* s reads as an integer: blanks, an optional sign, digits, blanks
BareInteger(s) ==
    \E a, b \in 1..Len(s) :
        /\ a <= b
        /\ \A k \in a..b : IsDigit(s[k])
        /\ \A k \in (b + 1)..Len(s) : s[k] = " "
        /\ \/ \A k \in 1..(a - 1) : s[k] = " "
           \/ /\ a > 1
              /\ s[a - 1] \in {"-", "+"}
              /\ \A k \in 1..(a - 2) : s[k] = " "

\* C11: parse_duration_to_seconds returns n for the integer n and for the
\* digit-only string of n; for a string with unit groups it returns
\* 3600*h + 60*m + s over the hour, minute and second groups present; for a
\* string with no unit group and no bare-integer reading it returns 0.
C11_DurationParsing ==
    pd_pc = "out" =>
        /\ pd_in.kind = "int" => pd_out = pd_in.n
        /\ (pd_in.kind = "str" /\ pd_in.n >= 0) => pd_out = pd_in.n
        /\ (pd_in.kind = "str" /\ AllDigits(pd_in.s)) => pd_out = Denotes(pd_in.s, 0)
        /\ (pd_in.kind = "str" /\ pd_in.parts # NoParts) =>
              pd_out = 3600 * (IF pd_in.parts.h < 0 THEN 0 ELSE pd_in.parts.h)
                         + 60 * (IF pd_in.parts.m < 0 THEN 0 ELSE pd_in.parts.m)
                         + (IF pd_in.parts.s < 0 THEN 0 ELSE pd_in.parts.s)
        /\ (pd_in.kind = "str" /\ HasGroup(pd_in.s)) =>
              pd_out = 3600 * GroupAmount(pd_in.s, "h")
                         + 60 * GroupAmount(pd_in.s, "m")
                         + GroupAmount(pd_in.s, "s")
        /\ (pd_in.kind = "str" /\ ~HasGroup(pd_in.s) /\ ~BareInteger(pd_in.s)) =>
              pd_out = 0

\* "1h 30m" parsed to 5400
C11_Witness ==
    /\ pd_pc = "out"
    /\ pd_in.kind = "str"
    /\ pd_in.s = <<"1", "h", " ", "3", "0", "m">>
    /\ pd_out = 5400

====
